---- MODULE Spec2Model ----
(***************************************************************************)
(* Session & progress engine of the habit tracker (src/App.tsx): the       *)
(* per-habit timer state machine, the session ledger (history), the streak *)
(* rule of saveSession and the goals list.                                 *)
(*                                                                         *)
(* Modelling conventions                                                   *)
(*  - Each React state updater (the function handed to setHabits,          *)
(*    setHistory, setGoals) is a pure operator over the previous value;    *)
(*    a handler is one action that applies its updaters in the order the   *)
(*    handler enqueues them (run-to-completion, one JS thread).            *)
(*  - Calendar dates are the strings of DateStrings; the day number of a   *)
(*    date is its index in that table (day 0 = 1970-01-01).                *)
(*  - Date.now() is the variable now (epoch milliseconds); it only moves   *)
(*    by AdvanceClock, independently of the 1-second interval (the code    *)
(*    counts interval firings, it never reads the clock for elapsed).      *)
(*  - toggleRunHabit calls saveSession from inside its setHabits updater;   *)
(*    the updater is taken to run once, and the updates saveSession        *)
(*    enqueues are applied after it (the two maps touch different fields). *)
(*  - While a habit card is dragged the user issues no other command.      *)
(*  - While a modal (manual log, adjustment, goal) or the delete alert is  *)
(*    open no other user command can be issued, and the interval never     *)
(*    changes a habit's id, name or color, so open+confirm is one action.  *)
(*  - USERS_DB is the in-memory user table.  SpecAccounts starts from the  *)
(*    app as constructed (nobody signed up); the other specifications      *)
(*    start right after the first user signed up and never log out.  The   *)
(*    persistence effect is part of every step that renders new data.      *)
(*  - addNewHabit adds the habit in a timeout callback 100 ms after the    *)
(*    button.  pendingHabits holds the callbacks set and not yet fired.    *)
(*    Within one login the callback's update commutes with a tick and no   *)
(*    command fits in between, so addNewHabit is one action there;         *)
(*    SpecAccounts, where the login can change in between, takes the       *)
(*    button (addNewHabitPressed) and the callback (addNewHabitTimeout)    *)
(*    as separate steps.                                                   *)
(***************************************************************************)
EXTENDS Integers, Sequences, FiniteSets

VARIABLES habits, history, goals, isDragging, now, tzOffsetMs, last,
          USERS_DB, currentUser, isLoggedIn, atLogout, pendingHabits

vars == <<habits, history, goals, isDragging, now, tzOffsetMs, last,
          USERS_DB, currentUser, isLoggedIn, atLogout, pendingHabits>>

----------------------------------------------------------------------------
(* Bounds of the model *)

\* seconds a timer is followed for in Spec and SpecRegistry
MaxElapsed == 1
\* ledger records explored in Spec
MaxHistory == 2
\* ledger records explored in SpecRegistry
RegistryMaxHistory == 1
\* clock advances (of one day each) explored
MaxClockSteps == 2
\* largest whole-minute countdown input explored
MaxInput == 2

\* addNewHabit timeouts that have been set and have not fired yet
MaxPending == 1

\* habit ids handed out: one habit at a time in Spec and SpecTimer, two in SpecRegistry
HabitIds == {1}
RegistryHabitIds == {1, 2}
\* text typed into the name field
NameInputs == {"", " Reading "}
RegistryNameInputs == {"", "Reading", " Meditate "}
CategoryInputs == {""}
Colors == {"#e74c3c"}
\* text typed into a minutes field
MinuteInputs == {"abc", "0", "1"}
\* text typed into the manual-log date field
DateInputs == {"1970-01-02", "70-1-1"}
\* goal modal inputs
GoalTargetInputs == {"0", "1"}
GoalPeriods == {"daily", "custom"}
GoalDateInputs == {"1970-01-02"}
\* local time minus UTC, in milliseconds
TzOffsets == {0}
\* inputs of the goals specification: a 20-minute manual log dated yesterday,
\* today or tomorrow (seen from the first day of the clock), a 5-minute
\* adjustment, every goal period, and local time at and one hour either side of UTC
GoalsLogMinutes == {"20"}
GoalsAdjustMinutes == {"5"}
GoalsLogDates == {"1970-01-01", "1970-01-02", "1970-01-03"}
GoalsTargetInputs == {"1"}
GoalsPeriods == {"daily", "weekly", "monthly", "custom"}
GoalsDateInputs == {"1970-01-02", "1970-01-03"}
GoalsTzOffsets == {0 - 60 * 60 * 1000, 0, 60 * 60 * 1000}
\* inputs of the validation specification: well-formed and ill-formed text for
\* every field
AnyNameInputs == {"", "  ", "Reading"}
AnyMinuteInputs == {"abc", "", "0", "-1", "1"}
AnyDateInputs == {"", "70-1-1", "1970-01-02"}
AnyGoalDateInputs == {"", "1970-01-02"}
\* the accounts of the in-memory user table, and the one logged in from the start
Usernames == {"anna", "ben"}
FirstUser == "anna"
FirstPassword == "pw"
\* text typed into the user name and password fields of the two auth screens
AuthNameInputs == {"", "Anna ", "ben"}
SignUpPassInputs == {"", "pw"}
LoginPassInputs == {"pw", "pw2"}

----------------------------------------------------------------------------
(* Program constants and the JS library functions the handlers call *)

oneDay == 24 * 60 * 60 * 1000

SecondsPerMinute == 60

\* the clock starts at noon UTC of 1970-01-02 and moves a day at a time
ClockStepMs == oneDay

StartNowMs == oneDay + oneDay \div 2

DateStrings == <<"1970-01-01", "1970-01-02", "1970-01-03", "1970-01-04", "1970-01-05">>

Digit == <<"0", "1", "2", "3", "4", "5", "6", "7", "8", "9">>

RECURSIVE NatToString(_)
NatToString(n) ==
  IF n < 10 THEN Digit[n + 1] ELSE NatToString(n \div 10) \o Digit[(n % 10) + 1]

\* Number.prototype.toString() on an integer
toString(n) == IF n < 0 THEN "-" \o NatToString(0 - n) ELSE NatToString(n)

ParseDomain == (0 - 9) .. 20

ParseTable == [n \in ParseDomain |-> toString(n)]

\* isNaN(parseInt(s)) for the decimal strings of ParseDomain and non-numeric text
IsNaNParse(s) == \A n \in ParseDomain : ParseTable[n] # s

\* parseInt(s) when it is a number
ParseInt(s) == CHOOSE n \in ParseDomain : ParseTable[n] = s

\* String.prototype.trim()
Trim(s) ==
  CASE s = "  " -> ""
    [] s = "Anna " -> "Anna"
    [] s = " Meditate " -> "Meditate"
    [] s = " Reading " -> "Reading"
    [] OTHER -> s

\* String.prototype.toLowerCase()
ToLowerCase(s) ==
  CASE s = "Anna" -> "anna"
    [] s = "Reading" -> "reading"
    [] s = "Meditate" -> "meditate"
    [] OTHER -> s

\* /^\d{4}-\d{2}-\d{2}$/.test(s)
DatePatternTest(s) == \E i \in 1..Len(DateStrings) : DateStrings[i] = s

\* day number of a YYYY-MM-DD string: [y, m, d] = s.split('-').map(Number)
DayOfDate(s) == (CHOOSE i \in 1..Len(DateStrings) : DateStrings[i] = s) - 1

\* new Date(y, m - 1, d).getTime(): local midnight of the date
LocalMidnightMs(s, tz) == DayOfDate(s) * oneDay - tz

\* getTodayString(): local calendar date of the instant ms
getTodayString(ms, tz) == DateStrings[((ms + tz) \div oneDay) + 1]

\* Array.prototype.map / filter over a sequence
SeqMap(f(_), s) == [i \in 1..Len(s) |-> f(s[i])]

Range(s) == {s[i] : i \in 1..Len(s)}

----------------------------------------------------------------------------
(* State updaters: the functions the handlers hand to setHabits/setHistory/setGoals *)

HabitWithId(hs, id) == CHOOSE h \in Range(hs) : h.id = id

\* variant: a gap of more than one day starts the streak again
saveSessionHabits_ResetOnGap(prev, name, duration, dateStr) ==
  IF duration = 0 THEN prev
  ELSE SeqMap(LAMBDA h :
                IF h.name = name /\ duration > 0
                THEN [h EXCEPT !.streak = IF h.lastLogDate = dateStr THEN h.streak
                                          ELSE IF h.lastLogDate = ""
                                                  \/ DayOfDate(dateStr) - DayOfDate(h.lastLogDate) = 1
                                               THEN h.streak + 1
                                               ELSE 1,
                               !.lastLogDate = dateStr]
                ELSE h,
              prev)

\* variant: a record of either sign counts as a completion
saveSessionHabits_AnySign(prev, name, duration, dateStr) ==
  IF duration = 0 THEN prev
  ELSE SeqMap(LAMBDA h :
                IF h.name = name
                THEN [h EXCEPT !.streak = IF h.lastLogDate = dateStr
                                          THEN h.streak ELSE h.streak + 1,
                               !.lastLogDate = dateStr]
                ELSE h,
              prev)

\* variant: the date is stored for a record of either sign, the streak only
\* counted for a positive one
saveSessionHabits_DateAnySign(prev, name, duration, dateStr) ==
  IF duration = 0 THEN prev
  ELSE SeqMap(LAMBDA h :
                IF h.name = name
                THEN [h EXCEPT !.streak = IF h.lastLogDate = dateStr \/ duration < 0
                                          THEN h.streak ELSE h.streak + 1,
                               !.lastLogDate = dateStr]
                ELSE h,
              prev)

\* saveSession, setHabits part: the streak rule, applied to every habit of that name
saveSessionHabits(prev, name, duration, dateStr) ==
  IF duration = 0 THEN prev
  ELSE SeqMap(LAMBDA h :
                IF h.name = name /\ duration > 0
                THEN [h EXCEPT !.streak = IF h.lastLogDate = dateStr
                                          THEN h.streak ELSE h.streak + 1,
                               !.lastLogDate = dateStr]
                ELSE h,
              prev)

\* variant: no early return for a zero duration
saveSessionHistory_NoZeroCheck(prev, name, duration, mode, color, timestamp, nowMs) ==
  <<[id |-> Len(prev) + 1,
     habitName |-> name,
     duration |-> duration,
     mode |-> mode,
     timestampMs |-> IF timestamp # 0 THEN timestamp ELSE nowMs,
     color |-> color]>> \o prev

\* variant: a removal takes the latest record out instead of adding one
saveSessionHistory_UndoRemoves(prev, name, duration, mode, color, timestamp, nowMs) ==
  IF duration = 0 THEN prev
  ELSE IF duration < 0 /\ prev # <<>> THEN Tail(prev)
  ELSE <<[id |-> Len(prev) + 1,
          habitName |-> name,
          duration |-> duration,
          mode |-> mode,
          timestampMs |-> IF timestamp # 0 THEN timestamp ELSE nowMs,
          color |-> color]>> \o prev

\* saveSession, setHistory part: the new record goes to the front.  An omitted
\* timestamp argument is passed as 0: "timestamp || Date.now()" treats undefined
\* and 0 alike.  The record id (Date.now() + Math.random(), a fresh key) is the
\* record's sequence number; timestampStr (display text of timestampMs) is left out.
saveSessionHistory(prev, name, duration, mode, color, timestamp, nowMs) ==
  IF duration = 0 THEN prev
  ELSE <<[id |-> Len(prev) + 1,
          habitName |-> name,
          duration |-> duration,
          mode |-> mode,
          timestampMs |-> IF timestamp # 0 THEN timestamp ELSE nowMs,
          color |-> color]>> \o prev

\* variant: a countdown is advanced like a stopwatch, with no completion test
tickHabits_NoCompletion(currentHabits) ==
  SeqMap(LAMBDA habit :
           IF habit.isRunning THEN [habit EXCEPT !.elapsed = habit.elapsed + 1] ELSE habit,
         currentHabits)

\* variant: a tick advances only the first running habit of the list
tickHabits_FirstRunning(currentHabits) ==
  LET running == {i \in DOMAIN currentHabits : currentHabits[i].isRunning}
  IN IF running = {} THEN currentHabits
     ELSE LET first == CHOOSE i \in running : \A j \in running : i <= j
              habit == currentHabits[first]
          IN [currentHabits EXCEPT ![first] =
                IF habit.selectedMode = "timer" /\ habit.elapsed + 1 >= habit.timerDuration
                THEN [habit EXCEPT !.isRunning = FALSE, !.elapsed = 0]
                ELSE [habit EXCEPT !.elapsed = habit.elapsed + 1]]

\* variant: a countdown is stopped one tick after it has reached its target
tickHabits_CompleteLate(currentHabits) ==
  SeqMap(LAMBDA habit :
           IF habit.isRunning
           THEN IF habit.selectedMode = "timer" /\ habit.elapsed + 1 > habit.timerDuration
                THEN [habit EXCEPT !.isRunning = FALSE, !.elapsed = 0]
                ELSE [habit EXCEPT !.elapsed = habit.elapsed + 1]
           ELSE habit,
         currentHabits)

\* the interval callback's updater
tickHabits(currentHabits) ==
  IF ~(\E h \in Range(currentHabits) : h.isRunning) THEN currentHabits
  ELSE SeqMap(LAMBDA habit :
                IF habit.isRunning
                THEN IF habit.selectedMode = "timer"
                     THEN IF habit.elapsed + 1 >= habit.timerDuration
                          THEN [habit EXCEPT !.isRunning = FALSE, !.elapsed = 0]
                          ELSE [habit EXCEPT !.elapsed = habit.elapsed + 1]
                     ELSE [habit EXCEPT !.elapsed = habit.elapsed + 1]
                ELSE habit,
              currentHabits)

\* "parseInt(h.timerInput) || 1": NaN and 0 both give 1
TimerMinutes(timerInput) ==
  IF IsNaNParse(timerInput) \/ ParseInt(timerInput) = 0 THEN 1 ELSE ParseInt(timerInput)

\* variant: stopping leaves the elapsed seconds in place
toggleRunHabitHabits_KeepElapsed(prev, id) ==
  SeqMap(LAMBDA h :
           IF h.id = id
           THEN IF h.isRunning
                THEN [h EXCEPT !.isRunning = FALSE]
                ELSE [h EXCEPT !.isRunning = TRUE,
                               !.timerDuration =
                                  IF h.selectedMode = "timer"
                                  THEN TimerMinutes(h.timerInput) * SecondsPerMinute
                                  ELSE h.timerDuration]
           ELSE h,
         prev)

\* variant: the countdown length is taken in minutes, not converted to seconds
toggleRunHabitHabits_NoSeconds(prev, id) ==
  SeqMap(LAMBDA h :
           IF h.id = id
           THEN IF h.isRunning
                THEN [h EXCEPT !.isRunning = FALSE, !.elapsed = 0]
                ELSE [h EXCEPT !.isRunning = TRUE,
                               !.timerDuration =
                                  IF h.selectedMode = "timer"
                                  THEN TimerMinutes(h.timerInput)
                                  ELSE h.timerDuration]
           ELSE h,
         prev)

\* toggleRunHabit's updater without its saveSession call
toggleRunHabitHabits(prev, id) ==
  SeqMap(LAMBDA h :
           IF h.id = id
           THEN IF h.isRunning
                THEN [h EXCEPT !.isRunning = FALSE, !.elapsed = 0]
                ELSE [h EXCEPT !.isRunning = TRUE,
                               !.timerDuration =
                                  IF h.selectedMode = "timer"
                                  THEN TimerMinutes(h.timerInput) * SecondsPerMinute
                                  ELSE h.timerDuration]
           ELSE h,
         prev)

newHabit(id, rawName, rawCategory, color) ==
  [id |-> id,
   name |-> Trim(rawName),
   category |-> Trim(rawCategory),
   color |-> color,
   selectedMode |-> "stopwatch",
   timerDuration |-> 60,
   timerInput |-> "1",
   elapsed |-> 0,
   isRunning |-> FALSE,
   streak |-> 0,
   lastLogDate |-> ""]

deleteHabitHabits(prev, id) == SelectSeq(prev, LAMBDA h : h.id # id)

\* variant: deleting a habit leaves its goal behind
deleteHabitGoals_NoCascade(prev, id) == prev

deleteHabitGoals(prev, id) == SelectSeq(prev, LAMBDA g : g.habitId # id)

incrementTimerHabits(prev, id) ==
  SeqMap(LAMBDA h :
           IF h.id = id
           THEN [h EXCEPT !.timerInput = toString(ParseInt(h.timerInput) + 1)]
           ELSE h,
         prev)

Max(a, b) == IF a >= b THEN a ELSE b

\* variant: the input is lowered without the floor of 1
decrementTimerHabits_NoFloor(prev, id) ==
  SeqMap(LAMBDA h :
           IF h.id = id
           THEN [h EXCEPT !.timerInput = toString(ParseInt(h.timerInput) - 1)]
           ELSE h,
         prev)

decrementTimerHabits(prev, id) ==
  SeqMap(LAMBDA h :
           IF h.id = id
           THEN [h EXCEPT !.timerInput = toString(Max(1, ParseInt(h.timerInput) - 1))]
           ELSE h,
         prev)

\* variant: the mode is switched and the habit stopped with its elapsed time kept
switchModeHabits_KeepElapsed(prev, id, newMode) ==
  SeqMap(LAMBDA h :
           IF h.id = id
           THEN [h EXCEPT !.selectedMode = newMode, !.isRunning = FALSE]
           ELSE h,
         prev)

switchModeHabits(prev, id, newMode) ==
  SeqMap(LAMBDA h :
           IF h.id = id
           THEN [h EXCEPT !.selectedMode = newMode, !.elapsed = 0, !.isRunning = FALSE]
           ELSE h,
         prev)

\* variant: the new goal is added without taking the habit's old goal out
saveGoalGoals_KeepOld(prev, goalHabitId, mins, goalPeriod, goalStartDate, goalEndDate) ==
  prev
    \o <<[habitId |-> goalHabitId,
          targetMinutes |-> mins,
          period |-> goalPeriod,
          startDate |-> goalStartDate,
          endDate |-> goalEndDate]>>

saveGoalGoals(prev, goalHabitId, mins, goalPeriod, goalStartDate, goalEndDate) ==
  SelectSeq(prev, LAMBDA g : g.habitId # goalHabitId)
    \o <<[habitId |-> goalHabitId,
          targetMinutes |-> mins,
          period |-> goalPeriod,
          startDate |-> goalStartDate,
          endDate |-> goalEndDate]>>

\* new Date(s).getTime() for a date-only ISO string: midnight UTC of the date
UtcMidnightMs(s) == DayOfDate(s) * oneDay

\* new Date().setHours(0,0,0,0): local midnight of the instant ms
StartOfDayMs(ms, tz) == ((ms + tz) \div oneDay) * oneDay - tz

\* the period test of getGoalProgress's filter; a date that new Date() cannot
\* read gives NaN, and every comparison with NaN is false.  x < 30 * oneDay is
\* written x \div oneDay < 30 (the same for integers x): 30 * oneDay is past the
\* 32-bit integers of the model checker, not past the numbers of the program.
goalPeriodTest(item, goal, nowMs, tz) ==
  IF goal.period = "daily" THEN item.timestampMs >= StartOfDayMs(nowMs, tz)
  ELSE IF goal.period = "weekly" THEN (nowMs - item.timestampMs) < (7 * oneDay)
  ELSE IF goal.period = "monthly" THEN (nowMs - item.timestampMs) \div oneDay < 30
  ELSE IF goal.period = "custom" /\ goal.startDate # "" /\ goal.endDate # ""
       THEN /\ DatePatternTest(goal.startDate)
            /\ DatePatternTest(goal.endDate)
            /\ item.timestampMs >= UtcMidnightMs(goal.startDate)
            /\ item.timestampMs < UtcMidnightMs(goal.endDate) + oneDay
  ELSE FALSE

\* getGoalProgress's filter: records under the name of the habit with that id
goalFilter(hs, hist, habitId, goal, nowMs, tz) ==
  SelectSeq(hist, LAMBDA item :
    /\ \E h \in Range(hs) : h.id = habitId
    /\ item.habitName = HabitWithId(hs, habitId).name
    /\ goalPeriodTest(item, goal, nowMs, tz))

\* filtered.reduce((acc, curr) => acc + curr.duration, 0)
RECURSIVE reduceDuration(_)
reduceDuration(items) ==
  IF items = <<>> THEN 0 ELSE items[1].duration + reduceDuration(Tail(items))

\* variant: only the records that add time are summed
getGoalProgress_PositiveOnly(hs, hist, habitId, goal, nowMs, tz) ==
  reduceDuration(SelectSeq(goalFilter(hs, hist, habitId, goal, nowMs, tz),
                           LAMBDA item : item.duration > 0)) \div 60

\* getGoalProgress: Math.floor(total / 60)
getGoalProgress(hs, hist, habitId, goal, nowMs, tz) ==
  reduceDuration(goalFilter(hs, hist, habitId, goal, nowMs, tz)) \div 60

\* the orders DraggableFlatList can hand to onDragEnd: the same items, rearranged
Reorderings(hs) ==
  {[i \in 1..Len(hs) |-> hs[p[i]]] :
     p \in {q \in [1..Len(hs) -> 1..Len(hs)] : \A a, b \in 1..Len(hs) : q[a] = q[b] => a = b}}

----------------------------------------------------------------------------
(* The state *)

Modes == {"stopwatch", "timer"}

NoOp == [op |-> "init", id |-> 0, n |-> 0, arg |-> <<>>]

\* last names the handler that ran last (op), the habit it was invoked on (id,
\* 0 when it has none), the elapsed seconds that habit had when the handler
\* started (n) and the text of the fields the handler read (arg).
\* It is bookkeeping of the model, not program state.
DidWith(op, id, n, arg) == last' = [op |-> op, id |-> id, n |-> n, arg |-> arg]

Did(op, id, n) == DidWith(op, id, n, <<>>)

UsedIds == {h.id : h \in Range(habits)}

Today == getTodayString(now, tzOffsetMs)

\* the data of a freshly signed-up user (themeId is not modelled)
EmptyData == [habits |-> <<>>, history |-> <<>>, goals |-> <<>>]

\* an entry of USERS_DB; USERS_DB[u] being undefined is registered = FALSE
NoUser == [registered |-> FALSE, password |-> "", data |-> EmptyData]

UserEntry(password) == [registered |-> TRUE, password |-> password, data |-> EmptyData]

\* the persistence effect: after a render in which a user is logged in, the
\* user's data in USERS_DB is the rendered habits, history and goals
Persisted ==
  USERS_DB' = IF currentUser' # "" /\ isLoggedIn' /\ USERS_DB[currentUser'].registered
              THEN [USERS_DB EXCEPT ![currentUser'].data =
                      [habits |-> habits', history |-> history', goals |-> goals']]
              ELSE USERS_DB

\* a handler that leaves the login alone
Saved == UNCHANGED <<currentUser, isLoggedIn, atLogout, pendingHabits>> /\ Persisted

\* atLogout[u] is what user u saw when u last logged out (shown = TRUE), until
\* u logs in again.  It is bookkeeping of the model, not program state.
NothingShown == [shown |-> FALSE, data |-> EmptyData]

Shown == [habits |-> habits, history |-> history, goals |-> goals]

\* the app right after its first user signed up: logged in, nothing recorded yet
InitFor(tzs) ==
  /\ habits = <<>>
  /\ history = <<>>
  /\ goals = <<>>
  /\ isDragging = FALSE
  /\ now = StartNowMs
  /\ tzOffsetMs \in tzs
  /\ last = NoOp
  /\ USERS_DB = [u \in Usernames |-> IF u = FirstUser THEN UserEntry(FirstPassword) ELSE NoUser]
  /\ currentUser = FirstUser
  /\ isLoggedIn = TRUE
  /\ atLogout = [u \in Usernames |-> NothingShown]
  /\ pendingHabits = <<>>

\* the app as constructed: nobody signed up, the auth screen showing
InitApp ==
  /\ habits = <<>>
  /\ history = <<>>
  /\ goals = <<>>
  /\ isDragging = FALSE
  /\ now = StartNowMs
  /\ tzOffsetMs \in TzOffsets
  /\ last = NoOp
  /\ USERS_DB = [u \in Usernames |-> NoUser]
  /\ currentUser = ""
  /\ isLoggedIn = FALSE
  /\ atLogout = [u \in Usernames |-> NothingShown]
  /\ pendingHabits = <<>>

----------------------------------------------------------------------------
(* Handlers *)

\* addNewHabit, with the body of its setTimeout callback (which reads only the
\* values captured when the button was pressed and uses a functional update);
\* for the specifications in which the login does not change
addNewHabit(ids, raws) ==
  /\ isLoggedIn /\ ~isDragging
  /\ \E raw \in raws, cat \in CategoryInputs, color \in Colors :
       IF Trim(raw) = ""
       THEN /\ DidWith("addRejected", 0, 0, <<raw>>)
            /\ UNCHANGED <<habits, history, goals, isDragging, now, tzOffsetMs>>
       ELSE /\ ids \ UsedIds # {}
            /\ LET id == CHOOSE i \in ids \ UsedIds : \A j \in ids \ UsedIds : i <= j
               IN /\ habits' = <<newHabit(id, raw, cat, color)>> \o habits
                  /\ DidWith("add", id, 0, <<raw>>)
            /\ UNCHANGED <<history, goals, isDragging, now, tzOffsetMs>>
  /\ Saved

\* addNewHabit up to its setTimeout call: the callback is set, with the fields
\* of the modal as they are now.  "by" is the user who pressed the button; it is
\* kept for the properties and is not program state.
addNewHabitPressed(raws) ==
  /\ isLoggedIn /\ ~isDragging
  /\ Len(pendingHabits) < MaxPending
  /\ \E raw \in raws, cat \in CategoryInputs, color \in Colors :
       IF Trim(raw) = ""
       THEN /\ DidWith("addRejected", 0, 0, <<raw>>)
            /\ UNCHANGED pendingHabits
       ELSE /\ pendingHabits' = Append(pendingHabits,
                                       [raw |-> raw, cat |-> cat, color |-> color,
                                        by |-> currentUser])
            /\ DidWith("addPressed", 0, 0, <<raw>>)
  /\ UNCHANGED <<habits, history, goals, isDragging, now, tzOffsetMs>>
  /\ UNCHANGED <<currentUser, isLoggedIn, atLogout>>
  /\ Persisted

\* the callback of addNewHabit's setTimeout, 100 ms later: it puts the habit in
\* front of the list that is in memory then, whoever is logged in, and the
\* persistence effect of the render that follows stores that list
addNewHabitTimeout(ids) ==
  /\ pendingHabits # <<>>
  /\ ids \ UsedIds # {}
  /\ LET pending == Head(pendingHabits)
         id == CHOOSE i \in ids \ UsedIds : \A j \in ids \ UsedIds : i <= j
     IN /\ habits' = <<newHabit(id, pending.raw, pending.cat, pending.color)>> \o habits
        /\ DidWith("addTimeout", id, 0, <<pending.raw, pending.by>>)
  /\ pendingHabits' = Tail(pendingHabits)
  /\ UNCHANGED <<history, goals, isDragging, now, tzOffsetMs>>
  /\ UNCHANGED <<currentUser, isLoggedIn, atLogout>>
  /\ Persisted

\* toggleRunHabit: stop (with its saveSession call) when running, start otherwise
toggleRunHabit(maxHist) ==
  /\ isLoggedIn /\ ~isDragging
  /\ \E id \in UsedIds :
       LET h == HabitWithId(habits, id)
       IN IF h.isRunning
          THEN /\ h.elapsed > 0 => Len(history) < maxHist
               /\ habits' = saveSessionHabits(toggleRunHabitHabits(habits, id),
                                              h.name, h.elapsed, Today)
               /\ history' = saveSessionHistory(history, h.name, h.elapsed,
                                                h.selectedMode, h.color, 0, now)
               /\ Did("stop", id, h.elapsed)
               /\ UNCHANGED <<goals, isDragging, now, tzOffsetMs>>
          ELSE /\ habits' = toggleRunHabitHabits(habits, id)
               /\ Did("start", id, h.elapsed)
               /\ UNCHANGED <<history, goals, isDragging, now, tzOffsetMs>>
  /\ Saved

\* how many habits a tick has stopped (kept in last, for the properties)
Completed(before, after) ==
  Cardinality({i \in DOMAIN before : before[i].isRunning /\ ~after[i].isRunning})

\* variant: the interval does not look at the drag flag
Tick_IgnoreDrag(maxStopwatch, maxTimer) ==
  /\ \A h \in Range(habits) :
       h.isRunning =>
         h.elapsed < (IF h.selectedMode = "timer" THEN maxTimer ELSE maxStopwatch)
  /\ habits' = tickHabits(habits)
  /\ Did(IF isDragging THEN "tickSuppressed" ELSE "tick", 0, Completed(habits, habits'))
  /\ UNCHANGED <<history, goals, isDragging, now, tzOffsetMs>>
  /\ Saved

\* one firing of the 1-second interval; a running habit is followed up to
\* maxStopwatch or maxTimer seconds
Tick(maxStopwatch, maxTimer) ==
  /\ IF isDragging
     THEN /\ Did("tickSuppressed", 0, 0)
          /\ UNCHANGED <<habits, history, goals, isDragging, now, tzOffsetMs>>
     ELSE /\ \A h \in Range(habits) :
               h.isRunning =>
                 h.elapsed < (IF h.selectedMode = "timer" THEN maxTimer ELSE maxStopwatch)
          /\ habits' = tickHabits(habits)
          /\ Did("tick", 0, Completed(habits, habits'))
          /\ UNCHANGED <<history, goals, isDragging, now, tzOffsetMs>>
  /\ Saved

\* deleteHabit, after "Ja" in the alert
deleteHabit ==
  /\ isLoggedIn /\ ~isDragging
  /\ \E id \in UsedIds :
       /\ habits' = deleteHabitHabits(habits, id)
       /\ goals' = deleteHabitGoals(goals, id)
       /\ Did("delete", id, HabitWithId(habits, id).elapsed)
  /\ UNCHANGED <<history, isDragging, now, tzOffsetMs>>
  /\ Saved

\* the arrows are rendered only for an idle habit in timer mode
incrementTimer(maxInput) ==
  /\ isLoggedIn /\ ~isDragging
  /\ \E id \in UsedIds :
       LET h == HabitWithId(habits, id)
       IN /\ h.selectedMode = "timer" /\ ~h.isRunning
          /\ ParseInt(h.timerInput) < maxInput
          /\ habits' = incrementTimerHabits(habits, id)
          /\ Did("increment", id, h.elapsed)
  /\ UNCHANGED <<history, goals, isDragging, now, tzOffsetMs>>
  /\ Saved

decrementTimer ==
  /\ isLoggedIn /\ ~isDragging
  /\ \E id \in UsedIds :
       LET h == HabitWithId(habits, id)
       IN /\ h.selectedMode = "timer" /\ ~h.isRunning
          /\ habits' = decrementTimerHabits(habits, id)
          /\ Did("decrement", id, h.elapsed)
  /\ UNCHANGED <<history, goals, isDragging, now, tzOffsetMs>>
  /\ Saved

\* the mode tabs are rendered for every habit, running or not
switchMode ==
  /\ isLoggedIn /\ ~isDragging
  /\ \E id \in UsedIds, newMode \in Modes :
       /\ habits' = switchModeHabits(habits, id, newMode)
       /\ DidWith("switchMode", id, HabitWithId(habits, id).elapsed, <<newMode>>)
  /\ UNCHANGED <<history, goals, isDragging, now, tzOffsetMs>>
  /\ Saved

\* saveManualLog; "Logga manuellt" is rendered only for a habit that is not running
saveManualLog(maxHist, minuteInputs, dateInputs) ==
  /\ isLoggedIn /\ ~isDragging
  /\ \E manualHabitId \in UsedIds, manualMinutes \in minuteInputs, manualDate \in dateInputs :
       LET habit == HabitWithId(habits, manualHabitId)
       IN /\ ~habit.isRunning
          /\ IF IsNaNParse(manualMinutes) \/ ParseInt(manualMinutes) <= 0
                \/ ~DatePatternTest(manualDate)
             THEN /\ DidWith("manualRejected", manualHabitId, 0, <<manualMinutes, manualDate>>)
                  /\ UNCHANGED <<habits, history>>
             ELSE /\ Len(history) < maxHist
                  /\ habits' = saveSessionHabits(habits, habit.name,
                                   ParseInt(manualMinutes) * 60, Today)
                  /\ history' = saveSessionHistory(history, habit.name,
                                   ParseInt(manualMinutes) * 60, "manual", habit.color,
                                   LocalMidnightMs(manualDate, tzOffsetMs), now)
                  /\ DidWith("manual", manualHabitId, 0, <<manualMinutes, manualDate>>)
  /\ UNCHANGED <<goals, isDragging, now, tzOffsetMs>>
  /\ Saved

\* variant: an adjustment only writes the ledger
saveAdjustment_LedgerOnly(maxHist, minuteInputs) ==
  /\ isLoggedIn /\ ~isDragging
  /\ \E adjustHabitName \in {r.habitName : r \in Range(history)},
        adjustMinutes \in minuteInputs, adjustType \in {"add", "remove"} :
     \E adjustHabitColor \in {r.color : r \in {q \in Range(history) : q.habitName = adjustHabitName}} :
       IF ~IsNaNParse(adjustMinutes) /\ ParseInt(adjustMinutes) > 0
       THEN LET seconds == ParseInt(adjustMinutes) * 60
                duration == IF adjustType = "add" THEN seconds ELSE 0 - seconds
            IN /\ Len(history) < maxHist
               /\ habits' = habits
               /\ history' = saveSessionHistory(history, adjustHabitName, duration,
                                                "adjustment", adjustHabitColor, 0, now)
               /\ DidWith("adjust", IF adjustType = "add" THEN 1 ELSE 2, 0, <<adjustMinutes>>)
       ELSE /\ DidWith("adjustRejected", 0, 0, <<adjustMinutes>>)
            /\ UNCHANGED <<habits, history>>
  /\ UNCHANGED <<goals, isDragging, now, tzOffsetMs>>
  /\ Saved

\* saveAdjustment; the pencil is rendered per habit name of the statistics, with
\* the color of a record of that name.  id 1 in last marks an added, 2 a removed time.
saveAdjustment(maxHist, minuteInputs) ==
  /\ isLoggedIn /\ ~isDragging
  /\ \E adjustHabitName \in {r.habitName : r \in Range(history)},
        adjustMinutes \in minuteInputs, adjustType \in {"add", "remove"} :
     \E adjustHabitColor \in {r.color : r \in {q \in Range(history) : q.habitName = adjustHabitName}} :
       IF ~IsNaNParse(adjustMinutes) /\ ParseInt(adjustMinutes) > 0
       THEN LET seconds == ParseInt(adjustMinutes) * 60
                duration == IF adjustType = "add" THEN seconds ELSE 0 - seconds
            IN /\ Len(history) < maxHist
               /\ habits' = saveSessionHabits(habits, adjustHabitName, duration, Today)
               /\ history' = saveSessionHistory(history, adjustHabitName, duration,
                                                "adjustment", adjustHabitColor, 0, now)
               /\ DidWith("adjust", IF adjustType = "add" THEN 1 ELSE 2, 0, <<adjustMinutes>>)
       ELSE /\ DidWith("adjustRejected", 0, 0, <<adjustMinutes>>)
            /\ UNCHANGED <<habits, history>>
  /\ UNCHANGED <<goals, isDragging, now, tzOffsetMs>>
  /\ Saved

\* variant: a custom goal is taken without looking at its dates
saveGoal_NoDateCheck(targetInputs, periods, dateInputs) ==
  /\ isLoggedIn /\ ~isDragging
  /\ \E goalHabitId \in UsedIds, goalTarget \in targetInputs, goalPeriod \in periods,
        goalStartDate \in dateInputs, goalEndDate \in dateInputs :
       IF ~IsNaNParse(goalTarget) /\ ParseInt(goalTarget) > 0
       THEN /\ goals' = saveGoalGoals(goals, goalHabitId, ParseInt(goalTarget),
                                      goalPeriod, goalStartDate, goalEndDate)
            /\ DidWith("goal", goalHabitId,
                       Cardinality({k \in DOMAIN goals : goals[k].habitId = goalHabitId}),
                       <<goalTarget, goalPeriod, goalStartDate, goalEndDate>>)
       ELSE /\ DidWith("goalRejected", goalHabitId, 0,
                         <<goalTarget, goalPeriod, goalStartDate, goalEndDate>>)
            /\ UNCHANGED goals
  /\ UNCHANGED <<habits, history, isDragging, now, tzOffsetMs>>
  /\ Saved

\* saveGoal; the goal modal is opened from the card of a habit of the list.
\* n in last is the number of goals the habit had before.
saveGoal(targetInputs, periods, dateInputs) ==
  /\ isLoggedIn /\ ~isDragging
  /\ \E goalHabitId \in UsedIds, goalTarget \in targetInputs, goalPeriod \in periods,
        goalStartDate \in dateInputs, goalEndDate \in dateInputs :
       IF ~IsNaNParse(goalTarget) /\ ParseInt(goalTarget) > 0
          /\ ~(goalPeriod = "custom" /\ (goalStartDate = "" \/ goalEndDate = ""))
       THEN /\ goals' = saveGoalGoals(goals, goalHabitId, ParseInt(goalTarget),
                                      goalPeriod, goalStartDate, goalEndDate)
            /\ DidWith("goal", goalHabitId,
                       Cardinality({k \in DOMAIN goals : goals[k].habitId = goalHabitId}),
                       <<goalTarget, goalPeriod, goalStartDate, goalEndDate>>)
       ELSE /\ DidWith("goalRejected", goalHabitId, 0,
                         <<goalTarget, goalPeriod, goalStartDate, goalEndDate>>)
            /\ UNCHANGED goals
  /\ UNCHANGED <<habits, history, isDragging, now, tzOffsetMs>>
  /\ Saved

onDragBegin ==
  /\ isLoggedIn /\ ~isDragging
  /\ habits # <<>>
  /\ isDragging' = TRUE
  /\ Did("dragBegin", 0, 0)
  /\ UNCHANGED <<habits, history, goals, now, tzOffsetMs>>
  /\ Saved

onDragEnd ==
  /\ isDragging
  /\ \E data \in Reorderings(habits) : habits' = data
  /\ isDragging' = FALSE
  /\ Did("dragEnd", 0, 0)
  /\ UNCHANGED <<history, goals, now, tzOffsetMs>>
  /\ Saved

\* loadUserAndLogin, with the persistence effect of the render that follows
loadUserAndLogin(db, username) ==
  /\ habits' = db[username].data.habits
  /\ history' = db[username].data.history
  /\ goals' = db[username].data.goals
  /\ currentUser' = username
  /\ isLoggedIn' = TRUE
  /\ USERS_DB' = [db EXCEPT ![username].data =
                    [habits |-> habits', history |-> history', goals |-> goals']]
  /\ atLogout' = [atLogout EXCEPT ![username] = NothingShown]

\* a refused sign-up or login: an alert, nothing else
authRejected(op) ==
  /\ Did(op, 0, 0)
  /\ UNCHANGED <<habits, history, goals, USERS_DB, currentUser, isLoggedIn, atLogout>>

\* handleSignUp; the auth screen is rendered only while nobody is logged in
handleSignUp(names, passes) ==
  /\ ~isLoggedIn
  /\ \E authName \in names, authPass \in passes :
       LET username == ToLowerCase(Trim(authName))
           password == Trim(authPass)
       IN IF username = "" \/ password = "" THEN authRejected("signUpRejected")
          ELSE IF USERS_DB[username].registered THEN authRejected("signUpRejected")
          ELSE /\ loadUserAndLogin([USERS_DB EXCEPT ![username] = UserEntry(password)],
                                    username)
               /\ DidWith("signUp", 0, 0, <<username>>)
  /\ UNCHANGED <<isDragging, now, tzOffsetMs, pendingHabits>>

handleLogin(names, passes) ==
  /\ ~isLoggedIn
  /\ \E authName \in names, authPass \in passes :
       LET username == ToLowerCase(Trim(authName))
           password == Trim(authPass)
       IN IF username \in Usernames /\ USERS_DB[username].registered
             /\ USERS_DB[username].password = password
          THEN /\ loadUserAndLogin(USERS_DB, username)
               /\ DidWith("login", 0, 0, <<username>>)
          ELSE authRejected("loginRejected")
  /\ UNCHANGED <<isDragging, now, tzOffsetMs, pendingHabits>>

\* variant: the lists are emptied before the snapshot is taken
handleLogout_ClearFirst ==
  /\ isLoggedIn /\ ~isDragging
  /\ USERS_DB' = IF currentUser # "" /\ USERS_DB[currentUser].registered
                 THEN [USERS_DB EXCEPT ![currentUser].data = EmptyData]
                 ELSE USERS_DB
  /\ atLogout' = [atLogout EXCEPT ![currentUser] = [shown |-> TRUE, data |-> Shown]]
  /\ isLoggedIn' = FALSE
  /\ currentUser' = ""
  /\ habits' = <<>>
  /\ history' = <<>>
  /\ goals' = <<>>
  /\ DidWith("logout", 0, 0, <<currentUser>>)
  /\ UNCHANGED <<isDragging, now, tzOffsetMs, pendingHabits>>

\* handleLogout (the button is on the settings tab; no card is held meanwhile)
handleLogout ==
  /\ isLoggedIn /\ ~isDragging
  /\ USERS_DB' = IF currentUser # "" /\ USERS_DB[currentUser].registered
                 THEN [USERS_DB EXCEPT ![currentUser].data = Shown]
                 ELSE USERS_DB
  /\ atLogout' = [atLogout EXCEPT ![currentUser] = [shown |-> TRUE, data |-> Shown]]
  /\ isLoggedIn' = FALSE
  /\ currentUser' = ""
  /\ habits' = <<>>
  /\ history' = <<>>
  /\ goals' = <<>>
  /\ DidWith("logout", 0, 0, <<currentUser>>)
  /\ UNCHANGED <<isDragging, now, tzOffsetMs, pendingHabits>>

\* the wall clock moves on
AdvanceClock(maxSteps) ==
  /\ now < StartNowMs + maxSteps * ClockStepMs
  /\ now' = now + ClockStepMs
  /\ Did("clock", 0, 0)
  /\ UNCHANGED <<habits, history, goals, isDragging, tzOffsetMs>>
  /\ Saved

----------------------------------------------------------------------------
(* Specifications *)

\* Spec: one habit at a time, every path into saveSession, the calendar moving.
Init == InitFor(TzOffsets)

Next ==
  \/ addNewHabit(HabitIds, NameInputs)
  \/ toggleRunHabit(MaxHistory)
  \/ Tick(MaxElapsed, MaxElapsed)
  \/ deleteHabit
  \/ switchMode
  \/ saveManualLog(MaxHistory, MinuteInputs, DateInputs)
  \/ saveAdjustment(MaxHistory, MinuteInputs)
  \/ AdvanceClock(MaxClockSteps)

Spec == Init /\ [][Next]_vars

\* SpecRegistry: two habits side by side, goals, deletion and reordering.
NextRegistry ==
  \/ addNewHabit(RegistryHabitIds, RegistryNameInputs)
  \/ toggleRunHabit(RegistryMaxHistory)
  \/ Tick(MaxElapsed, MaxElapsed)
  \/ deleteHabit
  \/ saveGoal(GoalTargetInputs, GoalPeriods, GoalDateInputs)
  \/ onDragBegin
  \/ onDragEnd

SpecRegistry == Init /\ [][NextRegistry]_vars

\* SpecTimer: one habit whose countdown runs to completion and whose stopwatch
\* runs past the longest countdown; the ledger takes one session per habit id.
TimerMaxSeconds == MaxInput * SecondsPerMinute

TimerLedgerRoom == Cardinality(HabitIds)

NextTimer ==
  \/ addNewHabit(HabitIds, NameInputs)
  \/ toggleRunHabit(TimerLedgerRoom)
  \/ Tick(TimerMaxSeconds + 1, TimerMaxSeconds)
  \/ switchMode
  \/ incrementTimer(MaxInput)
  \/ decrementTimer
  \/ onDragBegin
  \/ onDragEnd

SpecTimer == Init /\ [][NextTimer]_vars

\* SpecGoals: one habit, sessions, manual logs and adjustments dated before,
\* in and after the goal windows, in three time zones.
InitGoals == InitFor(GoalsTzOffsets)

NextGoals ==
  \/ addNewHabit(HabitIds, NameInputs)
  \/ toggleRunHabit(MaxHistory)
  \/ Tick(MaxElapsed, MaxElapsed)
  \/ saveManualLog(MaxHistory, GoalsLogMinutes, GoalsLogDates)
  \/ saveAdjustment(MaxHistory, GoalsAdjustMinutes)
  \/ saveGoal(GoalsTargetInputs, GoalsPeriods, GoalsDateInputs)
  \/ AdvanceClock(MaxClockSteps)

SpecGoals == InitGoals /\ [][NextGoals]_vars

\* SpecInputs: every command that reads text fields, with text of every kind.
NextInputs ==
  \/ addNewHabit(HabitIds, AnyNameInputs)
  \/ deleteHabit
  \/ saveManualLog(MaxHistory, AnyMinuteInputs, AnyDateInputs)
  \/ saveAdjustment(MaxHistory, AnyMinuteInputs)
  \/ saveGoal(AnyMinuteInputs, GoalPeriods, AnyGoalDateInputs)

SpecInputs == Init /\ [][NextInputs]_vars

\* SpecAccounts: the app from its construction, two accounts signing up,
\* logging out and in again around the commands that change their data.  A
\* logout and a login can fall between addNewHabit and its timeout, so the two
\* are separate steps here.
NextAccounts ==
  \/ handleSignUp(AuthNameInputs, SignUpPassInputs)
  \/ handleLogin(AuthNameInputs, LoginPassInputs)
  \/ handleLogout
  \/ addNewHabitPressed(NameInputs)
  \/ addNewHabitTimeout(HabitIds)
  \/ toggleRunHabit(RegistryMaxHistory)
  \/ Tick(MaxElapsed, MaxElapsed)
  \/ deleteHabit
  \/ saveGoal(GoalTargetInputs, GoalPeriods, GoalDateInputs)

SpecAccounts == InitApp /\ [][NextAccounts]_vars

\* SpecBatch: two habits, each a stopwatch or a countdown, running or not, in
\* either order, with ticks delivered while a drag is on and while none is.
NextBatch ==
  \/ addNewHabit(RegistryHabitIds, NameInputs)
  \/ toggleRunHabit(RegistryMaxHistory)
  \/ Tick(MaxElapsed, MaxElapsed)
  \/ switchMode
  \/ onDragBegin
  \/ onDragEnd

SpecBatch == Init /\ [][NextBatch]_vars

\* SpecCountdown: one habit run as a stopwatch or as a one-minute countdown,
\* with drags that come and go.  The interval keeps firing (setInterval, 395-412)
\* and a drag that has begun ends (684): both are weak fairness.
NextCountdown ==
  \/ addNewHabit(HabitIds, NameInputs)
  \/ toggleRunHabit(TimerLedgerRoom)
  \/ Tick(MaxElapsed, SecondsPerMinute)
  \/ switchMode
  \/ onDragBegin
  \/ onDragEnd

SpecCountdown ==
  /\ Init
  /\ [][NextCountdown]_vars
  /\ WF_vars(Tick(MaxElapsed, SecondsPerMinute))
  /\ WF_vars(onDragEnd)

\* SpecSession: one habit through its whole life: added, given a goal, run as a
\* stopwatch or as a one-minute countdown followed to its end, and deleted.
NextSession ==
  \/ addNewHabit(HabitIds, NameInputs)
  \/ toggleRunHabit(TimerLedgerRoom)
  \/ Tick(MaxElapsed, SecondsPerMinute)
  \/ switchMode
  \/ saveGoal(GoalTargetInputs, GoalPeriods, GoalDateInputs)
  \/ deleteHabit

SpecSession == Init /\ [][NextSession]_vars

----------------------------------------------------------------------------
(* Properties *)

\* the step added one record at the front of the ledger and kept the rest
Appended == Len(history') = Len(history) + 1 /\ Tail(history') = history

\* C1 (SpecTimer): when a tick brings a running countdown up to its target, the
\* habit becomes idle with elapsed 0 and one record with the target as duration
\* and kind countdown ("timer") is added to the ledger for that habit.
C1_CountdownAutoCommit ==
  [][\A i \in DOMAIN habits :
       (/\ last'.op = "tick"
        /\ habits[i].isRunning
        /\ habits[i].selectedMode = "timer"
        /\ habits[i].elapsed + 1 = habits[i].timerDuration)
       => (/\ ~habits'[i].isRunning
           /\ habits'[i].elapsed = 0
           /\ Appended
           /\ history'[1].duration = habits[i].timerDuration
           /\ history'[1].mode = "timer"
           /\ history'[1].habitName = habits[i].name)]_vars

\* C2 (SpecTimer): a stop on a running habit with n > 0 elapsed seconds adds
\* exactly one record with duration n, the habit's mode and the habit's name,
\* and leaves the habit idle with elapsed 0.
C2_StopAppendsSession ==
  [][\A i \in DOMAIN habits :
       (/\ last'.op = "stop"
        /\ last'.id = habits[i].id
        /\ habits[i].isRunning
        /\ habits[i].elapsed > 0)
       => (/\ Appended
           /\ history'[1].duration = habits[i].elapsed
           /\ history'[1].mode = habits[i].selectedMode
           /\ history'[1].habitName = habits[i].name
           /\ Len(habits') = Len(habits)
           /\ ~habits'[i].isRunning
           /\ habits'[i].elapsed = 0)]_vars

\* a stopwatch that ran for more than a minute was stopped and its seconds are
\* the duration of the newest record
C2_Witness ==
  /\ last.op = "stop"
  /\ last.n > SecondsPerMinute
  /\ history # <<>>
  /\ history[1].mode = "stopwatch"
  /\ history[1].duration = last.n
  /\ \E h \in Range(habits) : h.id = last.id /\ ~h.isRunning /\ h.elapsed = 0

\* C3 (Spec): a stop on a running habit with 0 elapsed seconds makes the habit
\* idle and leaves the ledger and every streak and lastLogDate as they were.
C3_ZeroStopDiscarded ==
  [][\A i \in DOMAIN habits :
       (/\ last'.op = "stop"
        /\ last'.id = habits[i].id
        /\ habits[i].isRunning
        /\ habits[i].elapsed = 0)
       => (/\ history' = history
           /\ Len(habits') = Len(habits)
           /\ ~habits'[i].isRunning
           /\ \A j \in DOMAIN habits :
                /\ habits'[j].streak = habits[j].streak
                /\ habits'[j].lastLogDate = habits[j].lastLogDate)]_vars

\* a habit with a streak from an earlier day was started and stopped at once
C3_Witness ==
  /\ last.op = "stop"
  /\ last.n = 0
  /\ \E h \in Range(habits) :
       h.id = last.id /\ ~h.isRunning /\ h.streak > 0 /\ h.lastLogDate # Today

\* C4 (SpecTimer): in every reachable state a habit in countdown mode has
\* elapsed <= timerDuration.
C4_CountdownWithinTarget ==
  \A h \in Range(habits) : h.selectedMode = "timer" => h.elapsed <= h.timerDuration

\* the longest countdown is one tick away from its target
C4_Witness ==
  \E h \in Range(habits) :
    /\ h.selectedMode = "timer"
    /\ h.isRunning
    /\ h.timerDuration = MaxInput * SecondsPerMinute
    /\ h.elapsed = h.timerDuration - 1

\* C5 (SpecRegistry): a tick delivered while the drag flag is set changes no
\* habit, no ledger record and no goal, and no later tick makes up for it: a
\* counted tick adds at most one second to a habit.
C5_SuppressedTickNoOp ==
  [][/\ last'.op = "tickSuppressed"
        => (habits' = habits /\ history' = history /\ goals' = goals)
     /\ last'.op = "tick"
        => (/\ Len(habits') = Len(habits)
            /\ \A i \in DOMAIN habits : habits'[i].elapsed <= habits[i].elapsed + 1)]_vars

\* a tick was dropped during a drag while a habit was running, beside an idle one
C5_Witness ==
  /\ last.op = "tickSuppressed"
  /\ isDragging
  /\ \E h \in Range(habits) : h.isRunning
  /\ \E h \in Range(habits) : ~h.isRunning

C7_NegativeAdjustmentKeepsStreak ==
  [][(Appended /\ history'[1].duration < 0)
       => (/\ Len(habits') = Len(habits)
           /\ \A i \in DOMAIN habits :
                /\ habits'[i].streak = habits[i].streak
                /\ habits'[i].lastLogDate = habits[i].lastLogDate)]_vars

\* time was removed under the name of a habit whose last completion was on an
\* earlier day
C7_Witness ==
  /\ history # <<>>
  /\ history[1].duration < 0
  /\ history[1].mode = "adjustment"
  /\ \E h \in Range(habits) :
       h.name = history[1].habitName /\ h.streak > 0 /\ h.lastLogDate # Today

\* C8 (Spec): the ledger only grows at the front: every step keeps all earlier
\* records, with their fields and in their order.
C8_LedgerAppendOnly ==
  [][history' = history \/ Appended]_vars

\* an undo sits in the ledger as a new negative adjustment on top of the session
\* it corrects
C8_Witness ==
  /\ Len(history) = 2
  /\ history[1].mode = "adjustment"
  /\ history[1].duration < 0
  /\ history[2].duration > 0

\* C9 (Spec): no ledger record has duration 0.
C9_NoZeroDuration ==
  \A r \in Range(history) : r.duration # 0

\* a zero-second session was stopped while the ledger already held records
C9_Witness ==
  /\ last.op = "stop"
  /\ last.n = 0
  /\ history # <<>>

\* C10 (SpecRegistry): deleting habit id removes exactly that habit and the goals
\* with that habitId; the ledger, the other habits and the other goals stay,
\* also when the habit was running.
C10_DeleteCascade ==
  [][last'.op = "delete"
       => (/\ habits' = SelectSeq(habits, LAMBDA h : h.id # last'.id)
           /\ Len(habits') = Len(habits) - 1
           /\ goals' = SelectSeq(goals, LAMBDA g : g.habitId # last'.id)
           /\ history' = history)]_vars

\* a running habit with counted seconds was deleted; the other habit, its goal
\* and the ledger are there
C10_Witness ==
  /\ last.op = "delete"
  /\ last.n > 0
  /\ Len(habits) = 1
  /\ Len(goals) = 1
  /\ goals[1].habitId = habits[1].id
  /\ history # <<>>

\* C11 (SpecRegistry): no two goals have the same habitId; a saveGoal for a
\* habit leaves that habit with exactly the goal of the call (target, period
\* and dates as entered) and keeps the goals of the other habits as they were.
C11_OneGoalPerHabit ==
  [][/\ \A i, j \in DOMAIN goals' : goals'[i].habitId = goals'[j].habitId => i = j
     /\ last'.op = "goal"
        => (/\ \E k \in DOMAIN goals' :
                 goals'[k] = [habitId |-> last'.id,
                              targetMinutes |-> ParseInt(last'.arg[1]),
                              period |-> last'.arg[2],
                              startDate |-> last'.arg[3],
                              endDate |-> last'.arg[4]]
            /\ \A g \in Range(goals) : g.habitId # last'.id => g \in Range(goals')
            /\ \A g \in Range(goals') : g.habitId # last'.id => g \in Range(goals))]_vars

\* a habit's daily goal was replaced by a custom one while the other habit has a goal
C11_Witness ==
  /\ last.op = "goal"
  /\ last.n = 1
  /\ last.arg[2] = "custom"
  /\ Len(goals) = 2
  /\ \E g \in Range(goals) : g.habitId # last.id /\ g.period = "daily"

\* the signed sum of the durations of the ledger records with index in I
RECURSIVE SignedSum(_, _)
SignedSum(hist, I) ==
  IF I = {} THEN 0
  ELSE LET i == CHOOSE k \in I : TRUE
       IN hist[i].duration + SignedSum(hist, I \ {i})

\* the progress shown for goal g of the habit with that id
Progress(g) == getGoalProgress(habits, history, g.habitId, g, now, tzOffsetMs)

C13_CustomWindowIsLocal ==
  \A g \in Range(goals) : \A h \in Range(habits) :
    (g.period = "custom" /\ h.id = g.habitId)
    => \A i \in DOMAIN history :
         history[i].habitName = h.name
         => ((history[i] \in Range(goalFilter(habits, history, g.habitId, g, now, tzOffsetMs)))
             <=> (/\ LocalMidnightMs(g.startDate, tzOffsetMs) <= history[i].timestampMs
                  /\ history[i].timestampMs
                       < LocalMidnightMs(g.endDate, tzOffsetMs) + oneDay))

\* C14 (SpecGoals): an accepted manual log adds exactly one record of kind
\* manual whose duration is the minutes entered times 60 and whose timestampMs
\* is local midnight of the date entered, whatever the clock shows.
C14_ManualLogAtLocalMidnight ==
  [][last'.op = "manual"
       => (/\ Appended
           /\ history'[1].mode = "manual"
           /\ history'[1].duration = ParseInt(last'.arg[1]) * 60
           /\ history'[1].timestampMs = LocalMidnightMs(last'.arg[2], tzOffsetMs))]_vars

\* C16 (Spec): switchMode on a running habit changes nothing of the habit's
\* isRunning, elapsed and selectedMode and nothing of the ledger; on an idle
\* habit it sets the mode asked for with elapsed 0 and the habit stays idle.
C16_SwitchModeOnlyFromIdle ==
  [][\A i \in DOMAIN habits :
       (last'.op = "switchMode" /\ last'.id = habits[i].id)
       => /\ Len(habits') = Len(habits)
          /\ history' = history
          /\ IF habits[i].isRunning
             THEN /\ habits'[i].isRunning = habits[i].isRunning
                  /\ habits'[i].elapsed = habits[i].elapsed
                  /\ habits'[i].selectedMode = habits[i].selectedMode
             ELSE /\ ~habits'[i].isRunning
                  /\ habits'[i].elapsed = 0
                  /\ habits'[i].selectedMode = last'.arg[1]]_vars

\* C18 (SpecGoals): for a daily, weekly or monthly goal, a record that is
\* counted is not later than now.
C18_RollingWindowEndsNow ==
  \A g \in Range(goals) :
    g.period \in {"daily", "weekly", "monthly"}
    => \A item \in Range(goalFilter(habits, history, g.habitId, g, now, tzOffsetMs)) :
         item.timestampMs <= now

\* C19 (SpecRegistry): a stop that commits a session for one habit leaves the
\* streak and lastLogDate of every other habit as they were, also of a habit
\* with the same name.
C19_StreakOfThatHabitOnly ==
  [][\A i \in DOMAIN habits :
       (/\ last'.op = "stop"
        /\ last'.id # habits[i].id)
       => (/\ Len(habits') = Len(habits)
           /\ habits'[i].streak = habits[i].streak
           /\ habits'[i].lastLogDate = habits[i].lastLogDate)]_vars

\* C20 (Spec): after an accepted manual log for date D the habit's lastLogDate
\* is D, and its streak is unchanged exactly when D was its lastLogDate before.
C20_StreakUsesLogDate ==
  [][\A i \in DOMAIN habits :
       (last'.op = "manual" /\ last'.id = habits[i].id)
       => (/\ Len(habits') = Len(habits)
           /\ habits'[i].lastLogDate = last'.arg[2]
           /\ (habits'[i].streak = habits[i].streak)
                <=> (habits[i].lastLogDate = last'.arg[2]))]_vars

\* text that is empty or only blanks
Blank(s) == s \in {"", "  "}

\* text of a minutes or target field that is no number, or a number <= 0
NoPositiveNumber(s) == s \in {"", "abc"} \/ s \in {"0", "-1"}

\* text that is not of the form YYYY-MM-DD
NotADate(s) == s \in {"", "70-1-1"}

C15_LogoutLoginRoundTrip ==
  [][\A u \in Usernames :
       (last'.op = "login" /\ currentUser' = u /\ atLogout[u].shown)
       => (/\ habits' = atLogout[u].data.habits
           /\ history' = atLogout[u].data.history
           /\ goals' = atLogout[u].data.goals)]_vars

\* a user is back in front of a running habit with counted seconds, a ledger
\* record and a goal, after the other user had been logged in
C15_Witness ==
  /\ last.op = "login"
  /\ isLoggedIn
  /\ \E h \in Range(habits) : h.isRunning /\ h.elapsed > 0
  /\ history # <<>>
  /\ goals # <<>>
  /\ \E u \in Usernames : u # currentUser /\ USERS_DB[u].registered /\ atLogout[u].shown

\* C22 (SpecTimer): every habit's timerDuration is at least 60 seconds, and a
\* start in countdown mode sets it to the whole-minute input (at least 1) times 60.
C22_CountdownTargetFromInput ==
  [][/\ \A h \in Range(habits') : h.timerDuration >= 60
     /\ \A i \in DOMAIN habits :
          (/\ last'.op = "start"
           /\ last'.id = habits[i].id
           /\ habits[i].selectedMode = "timer")
          => (/\ Len(habits') = Len(habits)
              /\ ~IsNaNParse(habits[i].timerInput)
              /\ ParseInt(habits[i].timerInput) >= 1
              /\ habits'[i].timerDuration = ParseInt(habits[i].timerInput) * 60)]_vars

\* a countdown was started with the input raised to the largest value explored
C22_Witness ==
  /\ last.op = "start"
  /\ \E h \in Range(habits) :
       /\ h.id = last.id
       /\ h.selectedMode = "timer"
       /\ h.isRunning
       /\ h.timerInput = toString(MaxInput)
       /\ h.timerDuration = MaxInput * 60

\* C24 (SpecTimer): the whole-minute input of every habit reads as an integer
\* >= 1; an increment raises it by one, a decrement lowers it by one but not
\* below 1.
C24_InputAtLeastOne ==
  [][/\ \A h \in Range(habits') : ~IsNaNParse(h.timerInput) /\ ParseInt(h.timerInput) >= 1
     /\ \A i \in DOMAIN habits :
          /\ (last'.op = "increment" /\ last'.id = habits[i].id)
             => (/\ Len(habits') = Len(habits)
                 /\ ParseInt(habits'[i].timerInput) = ParseInt(habits[i].timerInput) + 1)
          /\ (last'.op = "decrement" /\ last'.id = habits[i].id)
             => (/\ Len(habits') = Len(habits)
                 /\ ParseInt(habits'[i].timerInput)
                      = (IF ParseInt(habits[i].timerInput) = 1 THEN 1
                         ELSE ParseInt(habits[i].timerInput) - 1))]_vars

\* the down arrow was pressed on an input of 1 after the input had been raised
\* and lowered again
C24_Witness ==
  /\ last.op = "decrement"
  /\ \E h \in Range(habits) :
       /\ h.id = last.id
       /\ h.timerInput = "1"
       /\ h.timerDuration = MaxInput * 60

\* C27 (SpecRegistry): every goal's habitId is the id of a habit of the list.
C27_GoalsReferenceHabits ==
  \A g \in Range(goals) : g.habitId \in UsedIds

\* a habit that had a goal was deleted while the other habit keeps its goal
C27_Witness ==
  /\ last.op = "delete"
  /\ Len(habits) = 1
  /\ Len(goals) = 1
  /\ goals[1].habitId = habits[1].id
  /\ goals[1].period = "custom"

\* C28 (Spec): a habit has streak 0 exactly when its lastLogDate is empty, and
\* a habit just added has streak 0 and an empty lastLogDate.
C28_StreakZeroIffNoDate ==
  [][/\ \A h \in Range(habits') : (h.streak = 0) <=> (h.lastLogDate = "")
     /\ last'.op = "add"
        => (/\ habits' # <<>>
            /\ habits'[1].id = last'.id
            /\ habits'[1].streak = 0
            /\ habits'[1].lastLogDate = "")]_vars

\* a habit was added under a name the ledger already holds two records of
C28_Witness ==
  /\ last.op = "add"
  /\ Len(history) = 2
  /\ \E h \in Range(habits) :
       /\ h.id = last.id
       /\ h.streak = 0
       /\ h.lastLogDate = ""
       /\ \A r \in Range(history) : r.habitName = h.name

\* C29 (Spec): an adjustment that adds time raises the streak of every habit of
\* the adjusted name by one and stores the date, unless the habit's lastLogDate
\* is already that date (then the streak stays); an adjustment that removes
\* time changes neither.
C29_PositiveAdjustmentCounts ==
  [][\A i \in DOMAIN habits :
       (last'.op = "adjust" /\ Appended /\ history'[1].habitName = habits[i].name)
       => (/\ Len(habits') = Len(habits)
           /\ IF last'.id = 1
              THEN /\ history'[1].duration > 0
                   /\ habits'[i].lastLogDate = Today
                   /\ habits'[i].streak = (IF habits[i].lastLogDate = Today
                                           THEN habits[i].streak
                                           ELSE habits[i].streak + 1)
              ELSE /\ history'[1].duration < 0
                   /\ habits'[i].lastLogDate = habits[i].lastLogDate
                   /\ habits'[i].streak = habits[i].streak)]_vars

\* time was added, on a later day, under the name of a habit that had a streak
\* of 1: the streak is 2
C29_Witness ==
  /\ last.op = "adjust"
  /\ last.id = 1
  /\ Len(history) = 2
  /\ history[1].mode = "adjustment"
  /\ history[1].duration > 0
  /\ \E h \in Range(habits) :
       /\ h.name = history[1].habitName
       /\ h.streak = 2
       /\ h.lastLogDate = Today
       /\ getTodayString(history[2].timestampMs, tzOffsetMs) # Today

\* C21 (SpecSession): a habit that is not running has elapsed = 0, so a start
\* leaves the habit running with elapsed = 0; the start changes neither the
\* ledger, nor a goal, nor the streak or lastLogDate of any habit.
C21_StartFromZero ==
  [][/\ \A h \in Range(habits') : ~h.isRunning => h.elapsed = 0
     /\ \A i \in DOMAIN habits :
          (last'.op = "start" /\ last'.id = habits[i].id)
          => (/\ ~habits[i].isRunning
              /\ Len(habits') = Len(habits)
              /\ habits'[i].isRunning
              /\ habits'[i].elapsed = 0
              /\ history' = history
              /\ goals' = goals
              /\ \A j \in DOMAIN habits :
                   /\ habits'[j].streak = habits[j].streak
                   /\ habits'[j].lastLogDate = habits[j].lastLogDate)]_vars

\* a habit with a goal, a streak and a session in the ledger was started again
C21_Witness ==
  /\ last.op = "start"
  /\ history # <<>>
  /\ goals # <<>>
  /\ \E h \in Range(habits) :
       /\ h.id = last.id
       /\ h.isRunning
       /\ h.elapsed = 0
       /\ h.streak = 1
       /\ h.selectedMode = "timer"

\* C23 (SpecBatch): a tick delivered while no drag is on advances every running
\* habit in the same step: a running stopwatch gains exactly one second and
\* stays running, a running countdown below its target gains exactly one
\* second, and a habit that is not running is unchanged.
C23_TickIsOneBatch ==
  [][(last'.op = "tick")
     => (/\ ~isDragging
         /\ Len(habits') = Len(habits)
         /\ \A i \in DOMAIN habits :
              LET h == habits[i]
              IN /\ (h.isRunning /\ h.selectedMode = "stopwatch")
                    => habits'[i] = [h EXCEPT !.elapsed = h.elapsed + 1]
                 /\ (h.isRunning /\ h.selectedMode = "timer"
                       /\ h.elapsed + 1 < h.timerDuration)
                    => habits'[i] = [h EXCEPT !.elapsed = h.elapsed + 1]
                 /\ ~h.isRunning => habits'[i] = h)]_vars

\* one tick has advanced a running stopwatch and a running countdown together
C23_Witness ==
  /\ last.op = "tick"
  /\ Len(habits) = 2
  /\ \A h \in Range(habits) : h.isRunning /\ h.elapsed = MaxElapsed
  /\ habits[1].selectedMode = "stopwatch"
  /\ habits[2].selectedMode = "timer"

\* some habit is a running countdown
RunningCountdown == \E h \in Range(habits) : h.isRunning /\ h.selectedMode = "timer"

\* a tick that is not suppressed
CountedTick == ~isDragging /\ Tick(MaxElapsed, SecondsPerMinute)

\* C25 as stated (SpecCountdown): with ticks that keep coming and no drag that
\* lasts forever, a running countdown eventually is not running.
C25_AsStated == RunningCountdown ~> ~RunningCountdown

\* C25 (SpecCountdown): if ticks keep being delivered while no drag is on, a
\* running countdown eventually is not running; its elapsed is below its target
\* and changes only by counted ticks, and the counted tick that finds it at
\* target - 1 stops it, so it is idle after exactly timerDuration counted ticks
\* from its start.
C25_CountdownEnds ==
  /\ ([]<><<CountedTick>>_vars) => (RunningCountdown ~> ~RunningCountdown)
  /\ [][\A i \in DOMAIN habits :
          LET h == habits[i]
          IN (h.isRunning /\ h.selectedMode = "timer" /\ Len(habits') = Len(habits))
             => (/\ h.elapsed < h.timerDuration
                 /\ IF last'.op = "tick"
                    THEN IF h.elapsed + 1 = h.timerDuration
                         THEN ~habits'[i].isRunning /\ habits'[i].elapsed = 0
                         ELSE habits'[i].isRunning /\ habits'[i].elapsed = h.elapsed + 1
                    ELSE habits'[i].isRunning => habits'[i].elapsed = h.elapsed)]_vars

\* a tick has ended a countdown that nobody stopped
C25_Witness ==
  /\ last.op = "tick"
  /\ last.n = 1
  /\ history = <<>>
  /\ \E h \in Range(habits) :
       h.selectedMode = "timer" /\ ~h.isRunning /\ h.elapsed = 0 /\ h.timerDuration = SecondsPerMinute

\* C26 (SpecAccounts): no step changes the stored snapshot of a user other
\* than the one who is logged in; a command changes no stored snapshot but
\* that of the user who gave it, also when its effect comes later; and a
\* sign-up or login shows the stored snapshot of the user who logs in (empty
\* lists for a new user).
C26_SnapshotsAreIsolated ==
  [][/\ \A u \in Usernames :
          (USERS_DB[u].registered /\ u # currentUser /\ u # currentUser')
          => USERS_DB'[u] = USERS_DB[u]
     /\ \A u \in Usernames :
          (last'.op = "addTimeout" /\ USERS_DB[u].registered /\ u # last'.arg[2])
          => USERS_DB'[u] = USERS_DB[u]
     /\ \A u \in Usernames :
          (last'.op \in {"signUp", "login"} /\ currentUser' = u)
          => (/\ [habits |-> habits', history |-> history', goals |-> goals']
                   = (IF USERS_DB[u].registered THEN USERS_DB[u].data ELSE EmptyData)
              /\ USERS_DB'[u].data = (IF USERS_DB[u].registered THEN USERS_DB[u].data
                                      ELSE EmptyData))]_vars

====
